---- MODULE Spec2Model ----
(***************************************************************************)
(* Model of merge_textures.py: the mipmap driver (MipmapProcessor), the    *)
(* chunked resize (ChunkProcessor.safe_resize), the tile reassembly        *)
(* (ChunkProcessor.merge) and the resource check (HardwareManager).        *)
(*                                                                         *)
(* Sizes are pairs <<width, height>> in pixels.  Memory and disk readings  *)
(* are in KiB (psutil reports whole KiB on Linux), so that every byte      *)
(* count of the program stays below 2^31.                                  *)
(*                                                                         *)
(* Environment: the model draws what the program reads from its            *)
(* environment (psutil readings, directory listing, image sizes, tool exit *)
(* codes) and raises the library errors that the data make certain (a      *)
(* resize to an empty size, an operation on a closed image, writing an     *)
(* empty PNG).  It has no spontaneous faults (MemoryError, I/O errors).    *)
(***************************************************************************)
EXTENDS Integers, Sequences, FiniteSets, TLC

VARIABLES
    pc,                 \* position of the single thread of control
    outcome,            \* "running", "Done" or "Failed"
    files,              \* get_mip_files(): the sorted list of p<i>.png indices
    base_size,          \* size of files[0]
    idx,                \* loop index of process()
    current_size,       \* target size of the current level
    chain,              \* the list `processed` of process(): one entry per level
    targets,            \* history: the target sizes process() computed, in order
    tempFiles,          \* indices i whose temp_p<i>.png exists in TEMP_DIR
    tempDds,            \* whether the intermediate .dds exists in TEMP_DIR
    assembled,          \* history: the input lists texassemble was run with
    exhausted,          \* history: the level at which check_resources first raised, or -1
    discovered,         \* history: the indices the directory listing returned
    path,               \* process_image: index of the file being processed
    img,                \* size of the image handed to safe_resize
    target_size,        \* safe_resize / merge: target size
    chunk_size,         \* safe_resize: chunk edge
    tiles,              \* safe_resize: the tile coordinates
    tIdx,               \* safe_resize: position of the tile loop (1-based)
    processed,          \* safe_resize: the list `processed`, handed to merge
    pressured,          \* history: memory-pressure hits in this pass
    raised,             \* history: the error safe_resize's try block raised
    merged,             \* merge: size of the destination image
    mIdx,               \* merge: position of the loop over tiles (1-based)
    x_pos, y_pos, current_row_height,   \* merge: the cursor
    paste_box,          \* merge: paste_box of the current tile
    pasted,             \* history: <<tile, paste_box>> of every paste done
    skipped,            \* history: tiles whose paste raised ValueError
    resized             \* what safe_resize returned: [how, size]

driverVars == <<outcome, files, base_size, idx, current_size, chain, targets,
                tempFiles, tempDds, assembled, path, discovered>>
resizeVars == <<img, chunk_size, tiles, tIdx, pressured, raised, resized, exhausted>>
mergeVars  == <<merged, mIdx, x_pos, y_pos, current_row_height, paste_box, pasted, skipped>>
vars == <<pc, driverVars, resizeVars, mergeVars, target_size, processed>>

----------------------------------------------------------------------------
(* Bounds of the model *)

\* most memory-pressure hits drawn in one resize pass
MaxPressure == 2
\* longest tile list handed to merge when merge is checked on its own
MaxTiles == 3

(* Program constants *)

MemFloorKiB  == 1048576     \* 1 * 1024 * 1024 * 1024 bytes
DiskFloorKiB == 2097152     \* 2 * 1024 * 1024 * 1024 bytes
PressurePercent == 85
MinChunk  == 256
MaxChunk  == 2048
ChunkUnit == 128
Retained  == 3

----------------------------------------------------------------------------
(* Arithmetic helpers *)

Min(a, b) == IF a < b THEN a ELSE b
Max(a, b) == IF a > b THEN a ELSE b

RECURSIVE Pow2(_)
Pow2(n) == IF n = 0 THEN 1 ELSE 2 * Pow2(n - 1)

\* int(math.sqrt(n)) for 0 <= n < 2^31, by bisection on lo <= root < hi
RECURSIVE ISqrtIn(_, _, _)
ISqrtIn(n, lo, hi) ==
    IF hi - lo <= 1 THEN lo
    ELSE LET mid == (lo + hi) \div 2
         IN  IF mid * mid <= n THEN ISqrtIn(n, mid, hi) ELSE ISqrtIn(n, lo, mid)

ISqrt(n) == ISqrtIn(n, 0, 46341)

(* int(cw * (t / W)) in IEEE double arithmetic, for 1 <= W < 2^15, 0 <= cw, *)
(* 0 <= t and cw * t < 2^31.  The quotient and the product are each rounded *)
(* once, so the result is floor(cw*t/W) unless cw*t/W is an integer q and   *)
(* the rounded product falls below q; then it is q - 1.                     *)

\* floor(log2(t / W)) for t >= W
RECURSIVE Log2Up(_, _, _)
Log2Up(t, W, e) == IF W * Pow2(e + 1) <= t THEN Log2Up(t, W, e + 1) ELSE e

\* -floor(log2(t / W)) for 0 < t < W
RECURSIVE Log2Down(_, _, _)
Log2Down(t, W, k) == IF t * Pow2(k) < W THEN Log2Down(t, W, k + 1) ELSE k

FloorLog2Ratio(t, W) == IF t >= W THEN Log2Up(t, W, 0) ELSE 0 - Log2Down(t, W, 1)

\* (r * 2^n) mod W for r < W < 2^15, sixteen bits at a time
RECURSIVE ShiftMod(_, _, _)
ShiftMod(r, n, W) ==
    IF n <= 16 THEN (r * Pow2(n)) % W
    ELSE ShiftMod((r * 65536) % W, n - 16, W)

\* the j with 2^j < q <= 2^(j+1), for q >= 1
RECURSIVE BinadeBelow(_, _)
BinadeBelow(q, j) == IF Pow2(j + 1) < q THEN BinadeBelow(q, j + 1) ELSE j

\* whether double(cw * double(t / W)) < q, where q = cw*t/W is an integer
FallsShort(cw, t, W) ==
    LET q == (cw * t) \div W
        E == FloorLog2Ratio(t, W)
        r == ShiftMod(t % W, 52 - E, W)      \* what the 53-bit quotient drops
        d == E + 1 - BinadeBelow(q, -1)
    IN  /\ r # 0
        /\ 2 * r < W                          \* t / W was rounded down
        /\ IF d >= 0 THEN cw * r * Pow2(d) > W ELSE cw * r > W * Pow2(0 - d)

FloatTrunc(cw, t, W) ==
    IF cw = 0 \/ t = 0 THEN 0
    ELSE IF (cw * t) % W # 0 THEN (cw * t) \div W
    ELSE IF FallsShort(cw, t, W) THEN (cw * t) \div W - 1
    ELSE (cw * t) \div W

----------------------------------------------------------------------------
(* HardwareManager.check_resources: TRUE when it returns, FALSE when it raises *)

ResourcesOk(memKiB, diskKiB) == memKiB > MemFloorKiB /\ diskKiB > DiskFloorKiB

(* safe_resize: chunk size from the image size and the available memory *)
ChunkSize(W, H, memKiB) ==
    LET base_size_bytes == W * H * 3
        mem_factor == (memKiB * 1024) \div (base_size_bytes * 2)
    IN  Max(MinChunk, Min(MaxChunk, ISqrt(mem_factor) * ChunkUnit))

\* len(range(0, n, step))
RangeLen(n, step) == (n + step - 1) \div step

\* TilePlan without the clipping of the last tile of a row or column
TilePlanUnclipped(W, H, c) ==
    LET nx == RangeLen(W, c)
        ny == RangeLen(H, c)
    IN  [k \in 1..(nx * ny) |->
            LET x == ((k - 1) % nx) * c
                y == ((k - 1) \div nx) * c
            IN  [x0 |-> x, y0 |-> y, x1 |-> x + c, y1 |-> y + c]]

(* safe_resize: the list comprehension of tile coordinates *)
TilePlan(W, H, c) ==
    LET nx == RangeLen(W, c)
        ny == RangeLen(H, c)
    IN  [k \in 1..(nx * ny) |->
            LET x == ((k - 1) % nx) * c
                y == ((k - 1) \div nx) * c
            IN  [x0 |-> x, y0 |-> y, x1 |-> Min(x + c, W), y1 |-> Min(y + c, H)]]

\* ScaledDim rounding to the nearest integer instead of truncating
ScaledDimRounded(crop, target, source) ==
    Max(1, (2 * crop * target + source) \div (2 * source))

(* safe_resize: size of one resampled tile *)
ScaledDim(crop, target, source) == Max(1, FloatTrunc(crop, target, source))

ScaledTile(t, k, W, H, tsize) ==
    [width  |-> ScaledDim(t.x1 - t.x0, tsize[1], W),
     height |-> ScaledDim(t.y1 - t.y0, tsize[2], H),
     closed |-> FALSE,
     src    |-> k]

\* processed[-3:]
LastN(s, n) == IF Len(s) <= n THEN s ELSE SubSeq(s, Len(s) - n + 1, Len(s))

(* safe_resize: the list `processed` after one tile under / without pressure *)
Shed(done, scaled, pressure) ==
    IF pressure THEN Append(LastN(done, Retained), [scaled EXCEPT !.closed = TRUE])
    ELSE Append(done, scaled)

----------------------------------------------------------------------------
(* ChunkProcessor.merge *)

\* the cursor [x, y, h] after the wrap test of one iteration
WrapCursor(x, y, h, tile, msize) ==
    IF x + tile.width > msize[1]
    THEN [x |-> 0, y |-> y + h, h |-> 0]
    ELSE [x |-> x, y |-> y, h |-> h]

\* paste_box of a tile at cursor (x, y)
PasteBox(x, y, tile, msize) ==
    [x0 |-> x, y0 |-> y,
     x1 |-> Min(x + tile.width, msize[1]),
     y1 |-> Min(y + tile.height, msize[2])]

BoxW(b) == b.x1 - b.x0
BoxH(b) == b.y1 - b.y0

(* Whether merged.paste(tile.resize(size of b), b) raises ValueError.       *)
(* A closed image raises "Operation on closed image".  resize to a size     *)
(* with a zero side raises "height and width must be > 0", except that      *)
(* resize to the tile's own size is a copy: pasting an empty copy into an   *)
(* empty box raises or not depending on the Pillow version, so both are     *)
(* outcomes.                                                                *)
PasteRaises(tile, b) ==
    IF tile.closed THEN {TRUE}
    ELSE IF BoxW(b) > 0 /\ BoxH(b) > 0 THEN {FALSE}
    ELSE IF BoxW(b) = tile.width /\ BoxH(b) = tile.height THEN {TRUE, FALSE}
    ELSE {TRUE}

\* the cursor [x, y, h] after the paste attempt of one iteration
CursorAfterPaste(x, y, h, tile, failed) ==
    IF failed THEN [x |-> x, y |-> y, h |-> h]
    ELSE [x |-> x + tile.width, y |-> y, h |-> Max(h, tile.height)]

\* AfterPaste with a failed paste ending the loop
AfterPasteAbort(failed, cur, msize, i, n) ==
    IF failed THEN "merge_return"
    ELSE IF cur.y + cur.h > msize[2] THEN "merge_return"
    ELSE IF i + 1 > n THEN "merge_return"
    ELSE "merge_wrap"

\* where the loop goes after the paste attempt: the `continue`, the final
\* `break`, or the next iteration
AfterPaste(failed, cur, msize, i, n) ==
    IF (~failed) /\ cur.y + cur.h > msize[2] THEN "merge_return"
    ELSE IF i + 1 > n THEN "merge_return"
    ELSE "merge_wrap"

\* merged = Image.new('RGB', target_size)
NewImage(size) == size

MergeBegin ==
    /\ pc = "merge"
    /\ merged' = NewImage(target_size)
    /\ x_pos' = 0 /\ y_pos' = 0 /\ current_row_height' = 0
    /\ mIdx' = 1
    /\ pasted' = << >> /\ skipped' = << >>
    /\ pc' = IF Len(processed) = 0 THEN "merge_return" ELSE "merge_wrap"
    /\ UNCHANGED <<driverVars, resizeVars, target_size, processed, paste_box>>

MergeWrap ==
    /\ pc = "merge_wrap"
    /\ LET tile == processed[mIdx]
           cur  == WrapCursor(x_pos, y_pos, current_row_height, tile, merged)
       IN  /\ x_pos' = cur.x /\ y_pos' = cur.y /\ current_row_height' = cur.h
           /\ IF cur.y >= merged[2]
              THEN pc' = "merge_return" /\ UNCHANGED paste_box
              ELSE /\ pc' = "merge_paste"
                   /\ paste_box' = PasteBox(cur.x, cur.y, tile, merged)
    /\ UNCHANGED <<driverVars, resizeVars, target_size, processed,
                   merged, mIdx, pasted, skipped>>

MergePaste ==
    /\ pc = "merge_paste"
    /\ LET tile == processed[mIdx]
       IN  \E failed \in PasteRaises(tile, paste_box) :
             LET cur == CursorAfterPaste(x_pos, y_pos, current_row_height, tile, failed)
             IN  /\ x_pos' = cur.x /\ y_pos' = cur.y /\ current_row_height' = cur.h
                 /\ pasted' = IF failed THEN pasted
                              ELSE Append(pasted, [src |-> tile.src, box |-> paste_box])
                 /\ skipped' = IF failed THEN Append(skipped, tile.src) ELSE skipped
                 /\ mIdx' = mIdx + 1
                 /\ pc' = AfterPaste(failed, cur, merged, mIdx, Len(processed))
    /\ UNCHANGED <<driverVars, resizeVars, target_size, processed, merged, paste_box>>

----------------------------------------------------------------------------
(* ChunkProcessor.safe_resize *)

\* what the program can read from psutil and the file system
MemReadings     == {0, 16384, 32768, 153600, MemFloorKiB, MemFloorKiB + 1, 2097151}
DiskReadings    == {DiskFloorKiB, DiskFloorKiB + 1}
PercentReadings == {PressurePercent, PressurePercent + 1}

NoImage == [how |-> "none", size |-> <<0, 0>>]
NoBox   == [x0 |-> 0, y0 |-> 0, x1 |-> 0, y1 |-> 0]

\* img.resize(target_size, LANCZOS): a size with a zero side raises ValueError
WholeResize(tsize) ==
    IF tsize[1] < 1 \/ tsize[2] < 1 THEN [how |-> "error", size |-> tsize]
    ELSE [how |-> "whole", size |-> tsize]

\* AfterCheck with check_resources called outside the try block
AfterCheckUnguarded(ok) == IF ok THEN "plan" ELSE "safe_resize_raise"

\* where safe_resize goes after check_resources
AfterCheck(ok) == IF ok THEN "plan" ELSE "fallback"

CheckResources ==
    /\ pc = "check_resources"
    /\ \E mem \in MemReadings, disk \in DiskReadings :
         LET ok == ResourcesOk(mem, disk)
         IN  /\ pc' = AfterCheck(ok)
             /\ raised' = IF ok THEN raised ELSE "RuntimeError"
             /\ exhausted' = IF (~ok) /\ exhausted = -1 THEN idx ELSE exhausted
    /\ UNCHANGED <<driverVars, mergeVars, target_size, processed,
                   img, chunk_size, tiles, tIdx, pressured, resized>>

Plan ==
    /\ pc = "plan"
    /\ \E mem \in MemReadings :
         /\ chunk_size' = ChunkSize(img[1], img[2], mem)
         /\ tiles' = TilePlan(img[1], img[2], chunk_size')
    /\ tIdx' = 1
    /\ processed' = << >>
    /\ pc' = IF Len(tiles') = 0 THEN "merge" ELSE "tile_loop"
    /\ UNCHANGED <<driverVars, mergeVars, target_size,
                   img, pressured, raised, resized, exhausted>>

TileStep ==
    /\ pc = "tile_loop"
    /\ \E percent \in PercentReadings :
         LET pressure == percent > PressurePercent
             scaled   == ScaledTile(tiles[tIdx], tIdx, img[1], img[2], target_size)
         IN  /\ pressure => pressured < MaxPressure
             /\ processed' = Shed(processed, scaled, pressure)
             /\ pressured' = IF pressure THEN pressured + 1 ELSE pressured
    /\ tIdx' = tIdx + 1
    /\ pc' = IF tIdx + 1 > Len(tiles) THEN "merge" ELSE "tile_loop"
    /\ UNCHANGED <<driverVars, mergeVars, target_size,
                   img, chunk_size, tiles, raised, resized, exhausted>>

\* return ChunkProcessor.merge(processed, target_size)
MergeReturn ==
    /\ pc = "merge_return"
    /\ resized' = [how |-> "merged", size |-> merged]
    /\ pc' = "safe_resize_return"
    /\ UNCHANGED <<driverVars, mergeVars, target_size, processed,
                   img, chunk_size, tiles, tIdx, pressured, raised, exhausted>>

\* except Exception: return img.resize(target_size, Image.LANCZOS)
Fallback ==
    /\ pc = "fallback"
    /\ resized' = WholeResize(target_size)
    /\ pc' = IF resized'.how = "error" THEN "safe_resize_raise" ELSE "safe_resize_return"
    /\ UNCHANGED <<driverVars, mergeVars, target_size, processed,
                   img, chunk_size, tiles, tIdx, pressured, raised, exhausted>>

----------------------------------------------------------------------------
(* MipmapProcessor and the main block *)

FileIdx    == {0, 1, 2, 10}             \* the i of the p<i>.png that may exist
BaseSizes  == {<<256, 256>>, <<5, 3>>, <<2, 1>>}
LevelSizes == {<<2051, 2>>, <<4, 4>>}
ExitCodes  == {0, 1}

\* IndexBefore comparing the file names as strings ("p10.png" < "p2.png")
Digits(n) == IF n < 10 THEN <<n>> ELSE <<n \div 10, n % 10>>
NameBefore(a, b) ==
    LET da == Digits(a)
        db == Digits(b)
    IN  \/ da[1] < db[1]
        \/ da[1] = db[1] /\ Len(da) < Len(db)
        \/ da[1] = db[1] /\ Len(da) = 2 /\ Len(db) = 2 /\ da[2] < db[2]

\* key=lambda x: int(x.stem[1:])
IndexBefore(a, b) == a < b

\* sorted(listing, key=...), by insertion
RECURSIVE Insert(_, _)
Insert(s, f) ==
    IF s = << >> THEN <<f>>
    ELSE IF IndexBefore(f, Head(s)) THEN <<f>> \o s
    ELSE <<Head(s)>> \o Insert(Tail(s), f)

RECURSIVE Sorted(_)
Sorted(listing) ==
    IF listing = << >> THEN << >>
    ELSE Insert(Sorted(SubSeq(listing, 1, Len(listing) - 1)), listing[Len(listing)])

\* the orders in which glob may list the files S
Listings(S) ==
    {l \in [1..Cardinality(S) -> S] : \A i, j \in 1..Cardinality(S) : l[i] = l[j] => i = j}

\* Halve rounding up
HalveCeil(size) == <<(size[1] + 1) \div 2, (size[2] + 1) \div 2>>

\* current_size = (current_size[0] // 2, current_size[1] // 2)
Halve(size) == <<size[1] \div 2, size[2] \div 2>>

\* a size an image file can have
IsImageSize(size) == size[1] >= 1 /\ size[2] >= 1

\* the exception reaches the handler of the main block
Fail == pc' = "cleanup" /\ outcome' = "Failed"

ValidateEnvironment ==
    /\ pc = "validate"
    /\ \E inputDir, texassemble, texconv \in BOOLEAN :
         IF inputDir /\ texassemble /\ texconv
         THEN pc' = "get_mip_files" /\ UNCHANGED outcome
         ELSE Fail
    /\ UNCHANGED <<files, base_size, idx, current_size, chain, targets, tempFiles,
                   tempDds, assembled, path, discovered,
                   resizeVars, mergeVars, target_size, processed>>

GetMipFiles ==
    /\ pc = "get_mip_files"
    /\ \E S \in SUBSET FileIdx : \E listing \in Listings(S) :
         /\ discovered' = S
         /\ files' = Sorted(listing)
    /\ IF Len(files') < 2 THEN Fail ELSE pc' = "open_base" /\ UNCHANGED outcome
    /\ UNCHANGED <<base_size, idx, current_size, chain, targets, tempFiles,
                   tempDds, assembled, path,
                   resizeVars, mergeVars, target_size, processed>>

\* base_size = Image.open(files[0]).size; processed = [files[0]]
OpenBase ==
    /\ pc = "open_base"
    /\ \E size \in BaseSizes :
         /\ base_size' = size
         /\ current_size' = size
         /\ chain' = <<[file |-> files[1], kind |-> "input", size |-> size]>>
    /\ idx' = 1
    /\ pc' = "level"
    /\ UNCHANGED <<outcome, files, targets, tempFiles, tempDds, assembled, path,
                   discovered, resizeVars, mergeVars, target_size, processed>>

\* for idx in range(1, len(files)), then generate_dds(processed)
Level ==
    /\ pc = "level"
    /\ IF idx < Len(files)
       THEN /\ current_size' = Halve(current_size)
            /\ targets' = Append(targets, current_size')
            /\ path' = files[idx + 1]
            /\ pc' = "process_image"
       ELSE /\ pc' = "texassemble"
            /\ UNCHANGED <<current_size, targets, path>>
    /\ UNCHANGED <<outcome, files, base_size, idx, chain, tempFiles, tempDds,
                   assembled, discovered,
                   resizeVars, mergeVars, target_size, processed>>

ProcessImage ==
    /\ pc = "process_image"
    /\ \E size \in LevelSizes \cup {s \in {current_size} : IsImageSize(s)} :
         /\ img' = size
         /\ target_size' = current_size
         /\ IF size = current_size
            THEN /\ chain' = Append(chain, [file |-> path, kind |-> "input", size |-> size])
                 /\ idx' = idx + 1
                 /\ pc' = "level"
            ELSE /\ pc' = "check_resources"
                 /\ UNCHANGED <<chain, idx>>
    /\ chunk_size' = 0 /\ tiles' = << >> /\ tIdx' = 0 /\ processed' = << >>
    /\ pressured' = 0 /\ raised' = "none" /\ resized' = NoImage
    /\ merged' = <<0, 0>> /\ mIdx' = 0 /\ x_pos' = 0 /\ y_pos' = 0
    /\ current_row_height' = 0 /\ paste_box' = NoBox /\ pasted' = << >> /\ skipped' = << >>
    /\ UNCHANGED <<outcome, files, base_size, current_size, targets, tempFiles,
                   tempDds, assembled, path, discovered, exhausted>>

\* resized.save(temp_path, ...): writing an image with an empty side raises,
\* and may leave the file it opened
SaveResized ==
    /\ pc = "safe_resize_return"
    /\ IF IsImageSize(resized.size)
       THEN /\ tempFiles' = tempFiles \cup {path}
            /\ chain' = Append(chain, [file |-> path, kind |-> "temp", size |-> resized.size])
            /\ idx' = idx + 1
            /\ pc' = "level"
            /\ UNCHANGED outcome
       ELSE /\ \E left \in BOOLEAN : tempFiles' = IF left THEN tempFiles \cup {path} ELSE tempFiles
            /\ Fail
            /\ UNCHANGED <<chain, idx>>
    /\ UNCHANGED <<files, base_size, current_size, targets, tempDds, assembled, path,
                   discovered, resizeVars, mergeVars, target_size, processed>>

\* the fallback resize raised: the error leaves safe_resize and process()
PropagateResize ==
    /\ pc = "safe_resize_raise"
    /\ Fail
    /\ UNCHANGED <<files, base_size, idx, current_size, chain, targets, tempFiles,
                   tempDds, assembled, path, discovered,
                   resizeVars, mergeVars, target_size, processed>>

\* generate_dds: subprocess.run([texassemble, ...] + inputs, check=True)
TexAssemble ==
    /\ pc = "texassemble"
    /\ assembled' = Append(assembled, chain)
    /\ \E code \in ExitCodes :
         IF code = 0
         THEN tempDds' = TRUE /\ pc' = "texconv" /\ UNCHANGED outcome
         ELSE Fail /\ UNCHANGED tempDds
    /\ UNCHANGED <<files, base_size, idx, current_size, chain, targets, tempFiles,
                   path, discovered, resizeVars, mergeVars, target_size, processed>>

\* generate_dds: subprocess.run([texconv, ...], check=True)
TexConv ==
    /\ pc = "texconv"
    /\ \E code \in ExitCodes :
         IF code = 0 THEN pc' = "unlink" /\ UNCHANGED outcome ELSE Fail
    /\ UNCHANGED <<files, base_size, idx, current_size, chain, targets, tempFiles,
                   tempDds, assembled, path, discovered,
                   resizeVars, mergeVars, target_size, processed>>

\* temp_dds.unlink(missing_ok=True); process() returns
UnlinkDds ==
    /\ pc = "unlink"
    /\ tempDds' = FALSE
    /\ outcome' = "Done"
    /\ pc' = "cleanup"
    /\ UNCHANGED <<files, base_size, idx, current_size, chain, targets, tempFiles,
                   assembled, path, discovered,
                   resizeVars, mergeVars, target_size, processed>>

\* finally: unlink every temp_*.png
Cleanup ==
    /\ pc = "cleanup"
    /\ tempFiles' = {}
    /\ pc' = "terminated"
    /\ UNCHANGED <<outcome, files, base_size, idx, current_size, chain, targets,
                   tempDds, assembled, path, discovered,
                   resizeVars, mergeVars, target_size, processed>>

----------------------------------------------------------------------------
(* Specifications *)

Idle ==
    /\ outcome = "running" /\ files = << >> /\ base_size = <<0, 0>> /\ idx = 0
    /\ current_size = <<0, 0>> /\ chain = << >> /\ targets = << >>
    /\ tempFiles = {} /\ tempDds = FALSE /\ assembled = << >> /\ path = 0
    /\ discovered = {} /\ exhausted = -1
    /\ chunk_size = 0 /\ tiles = << >> /\ tIdx = 0
    /\ pressured = 0 /\ raised = "none" /\ resized = NoImage
    /\ merged = <<0, 0>> /\ mIdx = 0 /\ x_pos = 0 /\ y_pos = 0
    /\ current_row_height = 0 /\ paste_box = NoBox /\ pasted = << >> /\ skipped = << >>

(* The program: MipmapProcessor().process() under the main block *)
Init ==
    /\ pc = "validate"
    /\ img = <<0, 0>> /\ target_size = <<0, 0>> /\ processed = << >>
    /\ Idle

Next ==
    \/ ValidateEnvironment \/ GetMipFiles \/ OpenBase \/ Level \/ ProcessImage
    \/ CheckResources \/ Plan \/ TileStep \/ MergeBegin \/ MergeWrap \/ MergePaste
    \/ MergeReturn \/ Fallback \/ SaveResized \/ PropagateResize
    \/ TexAssemble \/ TexConv \/ UnlinkDds \/ Cleanup

Spec == Init /\ [][Next]_vars

(* One call safe_resize(img, target_size) *)
SrcSizes == {<<1, 1>>, <<2, 2>>, <<3, 2>>, <<600, 600>>, <<601, 601>>, <<513, 257>>,
             <<2051, 2>>, <<2050, 3>>, <<4100, 3>>, <<1030, 300>>}
ExtraTargets == {<<1, 0>>, <<0, 2>>, <<2, 2>>, <<300, 300>>, <<700, 650>>}

InitResize ==
    /\ pc = "check_resources"
    /\ img \in SrcSizes
    /\ target_size \in ({Halve(img)} \cup ExtraTargets) \ {img}
    /\ processed = << >>
    /\ Idle

NextResize ==
    \/ CheckResources \/ Plan \/ TileStep \/ MergeBegin \/ MergeWrap \/ MergePaste
    \/ MergeReturn \/ Fallback

SpecResize == InitResize /\ [][NextResize]_vars

(* One call merge(tiles, target_size) on any short list of small tiles *)
TileSides    == 0..2
MergeTargets == {<<0, 1>>, <<1, 1>>, <<2, 2>>, <<3, 2>>}

TileLists ==
    UNION {[1..n -> [width : TileSides, height : TileSides, closed : BOOLEAN]]
           : n \in 0..MaxTiles}

InitMerge ==
    /\ pc = "merge"
    /\ img = <<0, 0>>
    /\ target_size \in MergeTargets
    /\ \E l \in TileLists :
         processed = [k \in 1..Len(l) |->
                        [width |-> l[k].width, height |-> l[k].height,
                         closed |-> l[k].closed, src |-> k]]
    /\ Idle

NextMerge == MergeBegin \/ MergeWrap \/ MergePaste

SpecMerge == InitMerge /\ [][NextMerge]_vars

----------------------------------------------------------------------------
(* Properties of the tile plan (SpecResize) *)

RECURSIVE AreaSum(_)
AreaSum(rects) ==
    IF rects = << >> THEN 0
    ELSE (Head(rects).x1 - Head(rects).x0) * (Head(rects).y1 - Head(rects).y0)
         + AreaSum(Tail(rects))

Disjoint(a, b) == a.x1 <= b.x0 \/ b.x1 <= a.x0 \/ a.y1 <= b.y0 \/ b.y1 <= a.y0

\* C1: for every image with W, H > 0 and every derivable chunk size, the
\* tiles of safe_resize are non-empty rectangles inside the image, pairwise
\* disjoint, with union exactly [0,W) x [0,H) (inside, disjoint and of total
\* area W*H), listed row by row, each row left to right.
C1_TilePlanPartition ==
    tiles # << >> =>
        /\ chunk_size \in MinChunk..MaxChunk
        /\ \A i \in 1..Len(tiles) :
             /\ 0 <= tiles[i].x0 /\ tiles[i].x0 < tiles[i].x1 /\ tiles[i].x1 <= img[1]
             /\ 0 <= tiles[i].y0 /\ tiles[i].y0 < tiles[i].y1 /\ tiles[i].y1 <= img[2]
        /\ \A i, j \in 1..Len(tiles) : i < j => Disjoint(tiles[i], tiles[j])
        /\ AreaSum(tiles) = img[1] * img[2]
        /\ tiles[1].x0 = 0 /\ tiles[1].y0 = 0
        /\ \A i \in 1..(Len(tiles) - 1) :
             \/ tiles[i + 1].y0 = tiles[i].y0 /\ tiles[i + 1].x0 = tiles[i].x1
             \/ /\ tiles[i].x1 = img[1]
                /\ tiles[i + 1].x0 = 0
                /\ tiles[i + 1].y0 = tiles[i].y1

\* a plan of several rows and columns whose last row and column are clipped
C1_Witness ==
    /\ Len(tiles) >= 4
    /\ tiles[2].y0 = 0
    /\ tiles[Len(tiles)].x1 - tiles[Len(tiles)].x0 < chunk_size
    /\ tiles[Len(tiles)].y1 - tiles[Len(tiles)].y0 < chunk_size
    /\ tiles[Len(tiles)].y0 > 0

----------------------------------------------------------------------------
(* Properties of the tile loop (SpecResize) *)

\* C4: whatever the memory-pressure readings during the tile loop, the list
\* handed to merge is the complete row-major sequence of the resampled tiles
\* of the plan, every one of them usable.
C4_ShedKeepsAllTiles ==
    pc = "merge" =>
        /\ Len(processed) = Len(tiles)
        /\ \A i \in 1..Len(processed) : processed[i].src = i /\ ~processed[i].closed

\* the integers nearest to n / d
Nearest(n, d) == {r \in {n \div d, n \div d + 1} : 2 * r * d - 2 * n <= d /\ 2 * n - 2 * r * d <= d}

\* the integers v with n/d - 1 <= v <= n/d
Truncations(n, d) == {v \in {n \div d - 1, n \div d} : v * d <= n /\ n <= (v + 1) * d}

CropW(p) == tiles[p.src].x1 - tiles[p.src].x0
CropH(p) == tiles[p.src].y1 - tiles[p.src].y0

\* C8 as stated: every resampled tile has size (max(1, round(cropWidth *
\* scaleX)), max(1, round(cropHeight * scaleY))), scaleX = targetWidth /
\* sourceWidth, scaleY = targetHeight / sourceHeight.
C8_RoundedTileSize ==
    \A i \in 1..Len(processed) :
        LET p == processed[i]
        IN  /\ p.width  \in {Max(1, r) : r \in Nearest(CropW(p) * target_size[1], img[1])}
            /\ p.height \in {Max(1, r) : r \in Nearest(CropH(p) * target_size[2], img[2])}

\* C8 amended: every resampled tile has size (max(1, trunc(cropWidth *
\* scaleX)), max(1, trunc(cropHeight * scaleY))), where trunc drops the
\* fraction of the double product: it never exceeds the exact product and
\* is less than 1 below it, or exactly 1 below it when the double product
\* falls short of an integer; no resampled tile has a zero dimension.
C8_TruncatedTileSize ==
    \A i \in 1..Len(processed) :
        LET p == processed[i]
        IN  /\ p.width >= 1 /\ p.height >= 1
            /\ p.width  \in {Max(1, v) : v \in Truncations(CropW(p) * target_size[1], img[1])}
            /\ p.height \in {Max(1, v) : v \in Truncations(CropH(p) * target_size[2], img[2])}

\* a resampled tile whose exact scaled height has a fraction above one half
\* that was dropped, and one whose scaled width was raised from 0 to 1
C8_Witness ==
    /\ \E i \in 1..Len(processed) :
         LET p == processed[i]
             n == CropH(p) * target_size[2]
         IN  2 * (n % img[2]) > img[2] /\ p.height = n \div img[2] /\ p.height >= 1
    /\ \E i \in 1..Len(processed) :
         processed[i].width = 1 /\ CropW(processed[i]) * target_size[1] < img[1]

----------------------------------------------------------------------------
(* Properties of safe_resize as a whole (SpecResize) *)

Positive(size) == size[1] >= 1 /\ size[2] >= 1

CoveredBy(boxes, size) ==
    LET xs == {0} \cup {boxes[i].box.x1 : i \in 1..Len(boxes)}
        ys == {0} \cup {boxes[i].box.y1 : i \in 1..Len(boxes)}
    IN  \A x \in {v \in xs : v < size[1]}, y \in {v \in ys : v < size[2]} :
           \E i \in 1..Len(boxes) :
              /\ boxes[i].box.x0 <= x /\ x < boxes[i].box.x1
              /\ boxes[i].box.y0 <= y /\ y < boxes[i].box.y1

\* C10: for a source with W >= 2 and H >= 2 resized to (W // 2, H // 2)
\* with no memory pressure, merge pastes every resampled tile of the plan,
\* starts a row exactly where the plan does, and the pasted rectangles cover
\* every pixel of the destination.
C10_MergeCoversTarget ==
    (/\ pc = "merge_return"
     /\ raised = "none" /\ pressured = 0
     /\ img[1] >= 2 /\ img[2] >= 2
     /\ target_size = <<img[1] \div 2, img[2] \div 2>>) =>
        /\ Len(pasted) = Len(tiles)
        /\ skipped = << >>
        /\ \A i \in 1..Len(pasted) :
             /\ pasted[i].src = i
             /\ (pasted[i].box.x0 = 0) <=> (tiles[i].x0 = 0)
        /\ CoveredBy(pasted, merged)

----------------------------------------------------------------------------
(* Properties of merge (SpecMerge) *)

\* the paste of the current tile is certain to raise ValueError
PasteMustFail ==
    \/ processed[mIdx].closed
    \/ /\ BoxW(paste_box) = 0 \/ BoxH(paste_box) = 0
       /\ BoxW(paste_box) # processed[mIdx].width \/ BoxH(paste_box) # processed[mIdx].height

\* C9: in merge a paste failure of one tile never ends the loop: the tile
\* is skipped, the cursor (x_pos, y_pos, current_row_height) stays as it was
\* before the failed paste, the loop goes on to the next tile of the list if
\* there is one, and the image merge returns has exactly target_size.
C9_SkipKeepsMerging ==
    /\ [][ pc = "merge_paste" =>
             /\ PasteMustFail => Len(skipped') = Len(skipped) + 1
             /\ Len(skipped') > Len(skipped) =>
                  /\ pasted' = pasted
                  /\ x_pos' = x_pos /\ y_pos' = y_pos
                  /\ current_row_height' = current_row_height
                  /\ merged' = merged
                  /\ mIdx' = mIdx + 1
                  /\ pc' = IF mIdx < Len(processed) THEN "merge_wrap" ELSE "merge_return"
         ]_vars
    /\ [](pc = "merge_return" => merged = target_size)

\* a tile was skipped, and a later tile of the list was pasted after it
C9_Witness ==
    /\ pc = "merge_return"
    /\ skipped # << >>
    /\ pasted # << >>
    /\ pasted[Len(pasted)].src > skipped[1]
    /\ merged = target_size

----------------------------------------------------------------------------
(* Properties of the run (Spec) *)

\* C2: once check_resources has failed at the start of a resize pass, no
\* tiling is attempted, no image is produced for that level or a later one,
\* texassemble is never run, and the run ends Failed.
C2_ExhaustionIsFatal ==
    exhausted # -1 =>
        /\ pc \notin {"plan", "tile_loop", "merge", "merge_wrap", "merge_paste", "merge_return"}
        /\ Len(chain) <= exhausted
        /\ assembled = << >>
        /\ outcome # "Done"
        /\ pc = "terminated" => outcome = "Failed"

\* C3: when the run has terminated, Done or Failed, every temporary file it
\* created is gone: each temp_p<i>.png and the intermediate .dds.
C3_TempArtifactsDeleted ==
    pc = "terminated" => tempFiles = {} /\ ~tempDds

C6_TargetsHalve ==
    \A i \in 1..Len(targets) :
        /\ targets[i] = <<base_size[1] \div Pow2(i), base_size[2] \div Pow2(i)>>
        /\ i <= Len(chain)
        /\ targets[i] = <<chain[i].size[1] \div 2, chain[i].size[2] \div 2>>

\* a 256x256 base with three further levels, all produced
C6_Witness ==
    /\ base_size = <<256, 256>>
    /\ targets = << <<128, 128>>, <<64, 64>>, <<32, 32>> >>
    /\ Len(chain) = 4
    /\ chain[4].kind = "temp"

====
